---- MODULE Spec2Model ----
(***************************************************************************)
(* Runtime orchestration of crew subprocesses: backend/crew_runtime.py,    *)
(* backend/crew_broadcast.py, backend/crew_storage.py and the start/stop  *)
(* handlers of backend/main.py.                                            *)
(*                                                                         *)
(* The program runs on one asyncio event loop: every action below is the   *)
(* code one coroutine executes between two suspension points (await).      *)
(***************************************************************************)
EXTENDS Integers, Sequences, FiniteSets, Bags, TLC

VARIABLES
    running_crews,   \* CrewRuntime.running_crews: normalized id -> handle
    procs,           \* the subprocesses spawned so far, indexed by pid
    streams,         \* one stream_process_logs task per pid
    calls,           \* the start requests, indexed by arrival (Finished once ended)
    activity,        \* the events handed to the activity store, as a bag
    pushed,          \* the sio.emit calls made, as a bag of payloads
    recent_logs,     \* LogDeduplicator.recent_logs: key -> count (0: absent)
    tracker,         \* OperationTracker: current operation and sequences
    platform_system, \* platform.system() of the host
    now,             \* the wall clock (_utcnow / datetime.utcnow), in ticks
    events,          \* ActivityStore._events
    next_id,         \* ActivityStore._next_id
    file,            \* the file at ActivityStore._storage_path
    adders,          \* add_event calls between their timestamp and the lock
    assigned,        \* the ids add_event has handed out, in order
    listed,          \* the list get_events returned last, held by its caller
    add_result,      \* what the add_event call that ended last returned
    last_seen,       \* LogDeduplicator.recent_logs: key -> time last seen
    ref_logs,        \* per key, when is_duplicate saw it last and what it returned
    dedup_result,    \* what the last is_duplicate call returned
    op_times,        \* OperationTracker.operations: start_time, end_time, presence
    request_metrics_samples,  \* main.request_metrics_samples (deque)
    metrics_store,            \* MetricsStore: the request_metrics table
    request_metrics_summary,  \* main.request_metrics_summary
    cleanup_task,    \* CrewRuntime._cleanup_task: "none", "live" or "done"
    cleanup_pending, \* CrewRuntime._cleanup_pending
    callbacks,       \* the _start_cleanup_task callbacks call_soon has queued
    workers,         \* the cleanup worker tasks that exist and have not ended
    last_schedule,   \* whether the last schedule call found a running loop
    system_stats_history,  \* main.system_stats_history (deque)
    stats_table,           \* MetricsStore: the system_stats table
    history_response,      \* the last response of GET /system/stats/history
    call_args,       \* the arguments of a pure function under check
    call_result,     \* <<r>> once the function returned r for them, <<>> before
    alone_logs,      \* the deduplicator of a broadcaster that serves crew "a" only
    alone_tracker    \* the operation tracker of that broadcaster

\* The crew runtime and the handlers.
crewVars == <<running_crews, procs, streams, calls, activity, pushed, platform_system>>

\* The broadcaster's deduplicator and operation tracker.
broadcastVars == <<recent_logs, tracker>>

\* The activity store.
storeVars == <<events, next_id, file, adders, assigned, listed, add_result>>

\* The clocked view of the deduplicator and of the operation tracker.
dedupVars == <<last_seen, ref_logs, dedup_result>>
trackerVars == <<op_times>>

\* The request metrics of main.py.
metricsVars == <<request_metrics_samples, metrics_store, request_metrics_summary>>

\* The scheduling of the cleanup worker.
schedVars == <<cleanup_task, cleanup_pending, callbacks, workers, last_schedule>>

\* The components added last, which the steps of the others leave alone.
\* The system-stats history of main.py.
historyVars == <<system_stats_history, stats_table, history_response>>

\* The application of a pure function.
pureVars == <<call_args, call_result>>

\* The broadcaster that is given the lines of one crew only.
aloneVars == <<alone_logs, alone_tracker>>

lateVars == <<schedVars, historyVars, pureVars, aloneVars>>

vars == <<crewVars, broadcastVars, now, storeVars, dedupVars, trackerVars, metricsVars,
          lateVars>>

----------------------------------------------------------------------------
(* Bounds *)

MaxCalls == 2
MaxLines == 1
MaxPumpLines == 2
MaxProcs == 1
MaxRaceProcs == 2

----------------------------------------------------------------------------
(* Values *)

\* Python's None for an exit code that was never observed.
None == -1
ExitCodes == {0, 1}

\* Crew identifiers are strings, modelled as sequences of characters.
Letters == {"a", "b"}
Digits == {"1"}
Blank == " "

RawIds == { <<"a">>, <<"b", "-">>, <<>>, <<" ", "1">> }

\* How a request reaches the facade: the HTTP endpoint or the socket event.
Vias == {"http", "socket"}
Levels == {"info", "error"}

----------------------------------------------------------------------------
(* normalize_crew_identifier *)

RECURSIVE LStrip(_)
LStrip(s) == IF s # <<>> /\ Head(s) = Blank THEN LStrip(Tail(s)) ELSE s

RECURSIVE RStrip(_)
RStrip(s) ==
    IF s # <<>> /\ s[Len(s)] = Blank THEN RStrip(SubSeq(s, 1, Len(s) - 1)) ELSE s

Strip(s) == RStrip(LStrip(s))

ReplaceSeparators(s) ==
    [i \in 1..Len(s) |-> IF s[i] \in {"-", "."} THEN "_" ELSE s[i]]

MODULE_IMPORT_NAME(s) ==
    /\ s # <<>>
    /\ s[1] \in Letters \cup {"_"}
    /\ \A i \in 1..Len(s) : s[i] \in Letters \cup Digits \cup {"_"}

\* [ok |-> TRUE, id |-> normalized] or [ok |-> FALSE, ...] for a ValueError.
normalize_crew_identifier(raw_id) ==
    LET candidate == Strip(raw_id)
        normalized == ReplaceSeparators(candidate)
    IN  IF candidate = <<>> THEN [ok |-> FALSE, id |-> <<>>]
        ELSE IF ~(normalized[1] \in Letters \cup {"_"}) THEN [ok |-> FALSE, id |-> <<>>]
        ELSE IF ~MODULE_IMPORT_NAME(normalized) THEN [ok |-> FALSE, id |-> <<>>]
        ELSE [ok |-> TRUE, id |-> normalized]

----------------------------------------------------------------------------
(* Events *)

NoMeta == [category |-> "", operationId |-> 0, sequence |-> 0,
           isDuplicate |-> FALSE, duplicateCount |-> 0]

\* One event payload.  crew is the identifier as the payload carries it, pid
\* the process the event is about (0: none), code an exit code, msg the log
\* text, the status or the error, level the stream of a crew_log.
Event(type, crew, pid, code, msg, level) ==
    [type |-> type, crew |-> crew, pid |-> pid, code |-> code,
     msg |-> msg, level |-> level, meta |-> NoMeta]

\* ActivityStore._TRACKED_EVENTS
TrackedEvents == {"crew_log", "crew_started", "crew_start_ack", "crew_stopped",
                  "crew_error", "stop_requested"}

\* _record_activity_event / ActivityStore.add_event: untracked types are dropped.
RecordActivity(log, ev) ==
    IF ev.type \in TrackedEvents THEN log (+) SetToBag({ev}) ELSE log

\* await sio.emit(type, payload): the call is made; whether it raises is
\* the notifier's choice and decides only what the caller does next.
Emit(log, ev) == log (+) SetToBag({ev})

\* str(getattr(process, "pid", ""))
ProcessId(pid) == <<"pid", pid>>

----------------------------------------------------------------------------
(* The running-crews map *)

HasHandle(rc, id) == id \in DOMAIN rc

\* self.running_crews[normalized_id] = {"process": process, "process_id": process_id}
RecordHandle(rc, id, pid) ==
    [k \in (DOMAIN rc) \cup {id} |->
        IF k = id THEN [process |-> pid, process_id |-> ProcessId(pid)] ELSE rc[k]]

\* self.running_crews.pop(crew_id, None)
PopHandle(rc, id) == [k \in (DOMAIN rc) \ {id} |-> rc[k]]

----------------------------------------------------------------------------
(* start_crew, up to the await that spawns the subprocess *)

\* A start request in flight: crew_id is what the handler passes to
\* CrewManager.start_crew, crew its normalized form.
Call(via, crew_id, crew, pc) ==
    [via |-> via, crew_id |-> crew_id, crew |-> crew, pc |-> pc, pid |-> 0]

\* A start request that has ended.
Finished == [via |-> "", crew_id |-> <<>>, crew |-> <<>>, pc |-> "finished", pid |-> 0]

\* What the storage collaborator finds on disk for a crew.
FsOutcomes == {"ok", "resolve_error", "no_main"}

\* start_crew without the check of the running-crews map.
StartCheckNoRunning(norm, rc, fs) ==
    IF ~norm.ok THEN "invalid_id"
    ELSE IF fs = "resolve_error" THEN "resolve_error"
    ELSE IF fs = "no_main" THEN "no_main"
    ELSE ""

\* start_crew without the check that main.py exists.
StartCheckNoMain(norm, rc, fs) ==
    IF ~norm.ok THEN "invalid_id"
    ELSE IF HasHandle(rc, norm.id) THEN "already_running"
    ELSE IF fs = "resolve_error" THEN "resolve_error"
    ELSE ""

\* CrewRuntime.start_crew lines 97-108: "" when the call goes on to spawn,
\* else the exception it raises.
StartCheck(norm, rc, fs) ==
    IF ~norm.ok THEN "invalid_id"
    ELSE IF HasHandle(rc, norm.id) THEN "already_running"
    ELSE IF fs = "resolve_error" THEN "resolve_error"
    ELSE IF fs = "no_main" THEN "no_main"
    ELSE ""

\* What a handler does before it calls CrewManager.start_crew: the HTTP
\* endpoint sanitizes the identifier itself, the socket event rejects a
\* missing one.
HandlerPrecheck(via, raw) ==
    IF via = "http" /\ ~normalize_crew_identifier(raw).ok THEN "invalid_id"
    ELSE IF via = "socket" /\ raw = <<>> THEN "missing_crew_id"
    ELSE ""

\* The identifier the handler passes to CrewManager.start_crew.
HandlerCrewId(via, raw) ==
    IF via = "http" THEN normalize_crew_identifier(raw).id ELSE raw

\* error_crew_id = crew_id if crew_id else "unknown"
ErrorCrewId(raw) == IF raw = <<>> THEN <<"unknown">> ELSE raw

\* The except clause of the handler: the events it records and pushes when
\* the start failed with err.  The HTTP endpoint answers 400 with the
\* message; only startCrew mirrors the failure as crew_error.
ErrorEvents(via, raw, err) ==
    IF via = "socket"
        THEN << Event("crew_error", ErrorCrewId(raw), 0, None, err, "") >>
        ELSE << >>

RECURSIVE RecordAll(_, _)
RecordAll(log, evs) ==
    IF evs = <<>> THEN log ELSE RecordAll(RecordActivity(log, Head(evs)), Tail(evs))

RECURSIVE EmitAll(_, _)
EmitAll(log, evs) ==
    IF evs = <<>> THEN log ELSE EmitAll(Emit(log, Head(evs)), Tail(evs))

\* The handler's except clause runs for a start that failed with err.
HandlerExcept(via, raw, err) ==
    /\ activity' = RecordAll(activity, ErrorEvents(via, raw, err))
    /\ pushed' = EmitAll(pushed, ErrorEvents(via, raw, err))

\* A handler from its entry to its first await, the running-crews map being
\* rc: the error it ends with ("" when it goes on to spawn), and the events
\* it records and pushes.  ok: whether the emit of the "error" event for a
\* missing crew_id succeeds (if it raises, the except clause runs too).
StartEntry(rc, via, raw, fs, ok) ==
    LET pre == HandlerPrecheck(via, raw)
        arg == HandlerCrewId(via, raw)
        norm == normalize_crew_identifier(arg)
        err == IF pre # "" THEN pre ELSE StartCheck(norm, rc, fs)
        missing == Event("error", raw, 0, None, "missing_crew_id", "")
    IN  IF pre = "missing_crew_id"
          THEN [error |-> pre, crew_id |-> arg, crew |-> <<>>,
                recorded |-> IF ok THEN <<>> ELSE ErrorEvents(via, raw, "emit_error"),
                pushed |-> IF ok THEN <<missing>>
                           ELSE <<missing>> \o ErrorEvents(via, raw, "emit_error")]
          ELSE [error |-> err, crew_id |-> arg, crew |-> norm.id,
                recorded |-> IF err = "" THEN <<>> ELSE ErrorEvents(via, raw, err),
                pushed |-> IF err = "" THEN <<>> ELSE ErrorEvents(via, raw, err)]

----------------------------------------------------------------------------
(* Initial state: a freshly constructed CrewManager, nothing running *)

EmptyMap == [k \in {} |-> 0]

\* No file at the storage path.
NoFile == [next_id |-> 0, events |-> <<>>, exists |-> FALSE]

\* ActivityStore.__init__ with no file at the storage path.
StoreInit ==
    /\ events = <<>>
    /\ next_id = 1
    /\ file = NoFile
    /\ adders = {}
    /\ assigned = <<>>
    /\ listed = <<>>
    /\ add_result = ""

\* LogDeduplicator.__init__
DedupInit ==
    /\ last_seen = EmptyMap
    /\ ref_logs = [count |-> EmptyMap, seen |-> EmptyMap]
    /\ dedup_result = [dup |-> FALSE, count |-> 0]

\* OperationTracker.__init__
TrackerInit ==
    /\ op_times = <<>>

\* CrewRuntime.__init__ lines 35-36
SchedInit ==
    /\ cleanup_task = "none"
    /\ cleanup_pending = FALSE
    /\ callbacks = 0
    /\ workers = 0
    /\ last_schedule = "never"

\* main.py line 144 and _reload_metrics_from_persistence on an empty table
HistoryInit ==
    /\ system_stats_history = <<>>
    /\ stats_table = <<>>
    /\ history_response = [status |-> 0, window |-> "", sample_count |-> 0]

\* main.py lines 180-182 and _reload_metrics_from_persistence on an empty table
MetricsInit ==
    /\ request_metrics_samples = <<>>
    /\ metrics_store = <<>>
    /\ request_metrics_summary = [requests |-> 0, errors |-> 0]

InitBase ==
    /\ running_crews = EmptyMap
    /\ procs = <<>>
    /\ streams = <<>>
    /\ calls = <<>>
    /\ activity = EmptyBag
    /\ pushed = EmptyBag
    /\ recent_logs = EmptyMap
    /\ tracker = [current |-> 0, operations |-> <<>>]
    /\ platform_system \in {"Linux", "Windows"}
    /\ now = 0
    /\ StoreInit
    /\ DedupInit
    /\ TrackerInit
    /\ MetricsInit
    /\ SchedInit
    /\ HistoryInit
    /\ alone_logs = EmptyMap
    /\ alone_tracker = [current |-> 0, operations |-> <<>>]

\* No pure function is being checked.
Init == InitBase /\ call_args = <<>> /\ call_result = <<>>

\* A start request arrives (POST /api/crews/{id}/start or the startCrew
\* socket event) and runs up to its first await.
StartRequest(via, raw, fs, ok) ==
    /\ Len(calls) < MaxCalls
    /\ LET out == StartEntry(running_crews, via, raw, fs, ok)
       IN  /\ calls' = Append(calls, IF out.error = ""
                                       THEN Call(via, out.crew_id, out.crew, "spawn")
                                       ELSE Finished)
           /\ activity' = RecordAll(activity, out.recorded)
           /\ pushed' = EmitAll(pushed, out.pushed)
    /\ UNCHANGED <<running_crews, procs, streams, recent_logs, tracker, platform_system>>

\* The subprocess a spawn creates: asyncio's Process, or on Windows the
\* AsyncProcessWrapper around a Popen.
NewProcess(crew) ==
    [crew |-> crew,
     kind |-> IF platform_system = "Windows" THEN "wrapper" ELSE "native",
     returncode |-> None]

\* The stream task of a run and its two readers.  failed_at is the number
\* of crew_log entries of the run pushed when a push first raised (0: none
\* raised).
NewStream == [pc |-> "none", info |-> "idle", error |-> "idle",
              return_code |-> None, failed_at |-> 0]

\* The await of create_subprocess_exec / _start_process_windows returns: lines
\* 163-175 record the handle and the crew_started event and call sio.emit.
SpawnDone(c, ok) ==
    /\ c \in 1..Len(calls)
    /\ calls[c].pc = "spawn"
    /\ LET pid == Len(procs) + 1
           crew == calls[c].crew
           payload == Event("crew_started", crew, pid, None, "started", "")
       IN  /\ procs' = Append(procs, NewProcess(crew))
           /\ streams' = Append(streams, NewStream)
           /\ running_crews' = RecordHandle(running_crews, crew, pid)
           /\ activity' = RecordActivity(activity, payload)
           /\ pushed' = Emit(pushed, payload)
           /\ calls' = [calls EXCEPT ![c].pid = pid,
                                     ![c].pc = IF ok THEN "emit_ok" ELSE "emit_raised"]
    /\ UNCHANGED <<recent_logs, tracker, platform_system>>

\* The spawn itself raises (the command is missing, the fork fails): the
\* exception reaches the handler.
SpawnFail(c) ==
    /\ c \in 1..Len(calls)
    /\ calls[c].pc = "spawn"
    /\ calls' = [calls EXCEPT ![c] = Finished]
    /\ HandlerExcept(calls[c].via, calls[c].crew_id, "spawn_error")
    /\ UNCHANGED <<running_crews, procs, streams, recent_logs, tracker, platform_system>>

\* The stream task start_crew creates at lines 177-187.
StreamTaskCreated(st) == [st EXCEPT !.pc = "streaming", !.info = "reading", !.error = "reading"]

\* sio.emit("crew_started") returned: start_crew creates the stream task and
\* returns the process id; startCrew then records and sends crew_start_ack,
\* and if that emit raises its except clause reports crew_error.
EmitStartedReturn(c, ack_ok) ==
    /\ c \in 1..Len(calls)
    /\ calls[c].pc = "emit_ok"
    /\ streams' = [streams EXCEPT ![calls[c].pid] = StreamTaskCreated(@)]
    /\ calls' = [calls EXCEPT ![c] = Finished]
    /\ LET via == calls[c].via
           raw == calls[c].crew_id
           ack == Event("crew_start_ack", raw, calls[c].pid, None, "starting", "")
       IN  IF via # "socket"
             THEN UNCHANGED <<activity, pushed>>
           ELSE IF ack_ok
             THEN /\ activity' = RecordActivity(activity, ack)
                  /\ pushed' = Emit(pushed, ack)
           ELSE /\ activity' = RecordAll(RecordActivity(activity, ack),
                                         ErrorEvents(via, raw, "emit_error"))
                /\ pushed' = EmitAll(Emit(pushed, ack), ErrorEvents(via, raw, "emit_error"))
    /\ UNCHANGED <<running_crews, procs, recent_logs, tracker, platform_system>>

\* sio.emit("crew_started") raised: start_crew propagates the exception
\* before it creates the stream task; the handler's except clause runs.
EmitStartedRaise(c) ==
    /\ c \in 1..Len(calls)
    /\ calls[c].pc = "emit_raised"
    /\ calls' = [calls EXCEPT ![c] = Finished]
    /\ HandlerExcept(calls[c].via, calls[c].crew_id, "emit_error")
    /\ UNCHANGED <<running_crews, procs, streams, recent_logs, tracker, platform_system>>

----------------------------------------------------------------------------
(* crew_broadcast.py: classification, deduplication, operation tracking *)

\* A log line is a sequence of words; <<>> is a line that is blank after
\* rstrip/strip.  A keyword matches when it is one of the words.
LogTexts == { <<>>, <<"search">> }

Contains(text, terms) == \E i \in 1..Len(text) : text[i] \in terms

\* str.lower() of one word: the words of the model written with capitals.
LowerWord(word) ==
    CASE word = "SEARCH" -> "search"
      [] word = "Error" -> "error"
      [] word = "Analyz" -> "analyz"
      [] OTHER -> word

\* message.lower()
Lower(message) == [i \in 1..Len(message) |-> LowerWord(message[i])]

categorize_errors_first(message) ==
    LET message_lower == Lower(message)
    IN  IF Contains(message_lower, {"error", "fail", "exception", "issue"}) THEN "ERROR"
        ELSE IF Contains(message_lower, {"search", "query", "looking for", "find"}) THEN "SEARCH"
        ELSE IF Contains(message_lower, {"analyz", "process", "evaluat", "assess"}) THEN "ANALYSIS"
        ELSE IF Contains(message_lower, {"decid", "select", "choose", "determin"}) THEN "DECISION"
        ELSE IF Contains(message_lower, {"result", "found", "complet", "finish"}) THEN "RESULT"
        ELSE IF Contains(message_lower, {"execut", "perform", "run", "start"}) THEN "ACTION"
        ELSE "INFO"

categorize_log(message) ==
    LET message_lower == Lower(message)
    IN  IF Contains(message_lower, {"search", "query", "looking for", "find"}) THEN "SEARCH"
        ELSE IF Contains(message_lower, {"analyz", "process", "evaluat", "assess"}) THEN "ANALYSIS"
        ELSE IF Contains(message_lower, {"decid", "select", "choose", "determin"}) THEN "DECISION"
        ELSE IF Contains(message_lower, {"result", "found", "complet", "finish"}) THEN "RESULT"
        ELSE IF Contains(message_lower, {"error", "fail", "exception", "issue"}) THEN "ERROR"
        ELSE IF Contains(message_lower, {"execut", "perform", "run", "start"}) THEN "ACTION"
        ELSE "INFO"

\* LogDeduplicator.is_duplicate.  within is whether less than time_window
\* seconds passed since the key was last seen (the clock is the environment's).
SeenCount(rl, key) == IF key \in DOMAIN rl THEN rl[key] ELSE 0

is_duplicate(rl, key, within) ==
    IF SeenCount(rl, key) > 0 /\ within
        THEN [dup |-> TRUE, count |-> SeenCount(rl, key) + 1]
        ELSE [dup |-> FALSE, count |-> 1]

SetSeen(rl, key, n) == [k \in (DOMAIN rl) \cup {key} |-> IF k = key THEN n ELSE rl[k]]

\* OperationTracker.start_operation: a fresh id becomes the current operation.
start_operation(tr, type) ==
    [current |-> Len(tr.operations) + 1,
     operations |-> Append(tr.operations,
                           [type |-> type, status |-> "in_progress",
                            sequence |-> 0, ended |-> FALSE])]

\* OperationTracker.update_operation (status not given)
update_operation(tr, id) ==
    IF id \in 1..Len(tr.operations)
        THEN [tr EXCEPT !.operations[id].sequence = @ + 1]
        ELSE tr

OperationSequence(tr, id) ==
    IF id \in 1..Len(tr.operations) THEN tr.operations[id].sequence ELSE 0

\* An end_operation that leaves the current slot as it is.
end_operation_keeps_current(tr, id) ==
    IF id \in 1..Len(tr.operations)
        THEN [tr EXCEPT !.operations[id].status = "complete",
                        !.operations[id].ended = TRUE]
        ELSE tr

\* OperationTracker.end_operation (status "complete")
end_operation(tr, id) ==
    IF id \in 1..Len(tr.operations)
        THEN [current |-> IF tr.current = id THEN 0 ELSE tr.current,
              operations |-> [tr.operations EXCEPT ![id].status = "complete",
                                                   ![id].ended = TRUE]]
        ELSE tr

\* A reader that tags the RESULT line with the operation it closes.
TrackLineTagsResult(tr, category) ==
    IF category \in {"SEARCH", "ANALYSIS", "DECISION"}
        THEN LET t1 == IF tr.current = 0 THEN start_operation(tr, category) ELSE tr
                 t2 == update_operation(t1, t1.current)
             IN  [tracker |-> t2, operationId |-> t1.current,
                  sequence |-> OperationSequence(t2, t1.current)]
    ELSE IF tr.current # 0
        THEN LET t2 == update_operation(tr, tr.current)
             IN  [tracker |-> IF category = "RESULT" THEN end_operation(t2, tr.current) ELSE t2,
                  operationId |-> tr.current,
                  sequence |-> OperationSequence(t2, tr.current)]
    ELSE [tracker |-> tr, operationId |-> 0, sequence |-> 0]

\* _read_stream lines 203-222: the tracker after the line, and the
\* operationId and sequence the log entry carries.
TrackLine(tr, category) ==
    IF category \in {"SEARCH", "ANALYSIS", "DECISION"}
        THEN LET t1 == IF tr.current = 0 THEN start_operation(tr, category) ELSE tr
                 t2 == update_operation(t1, t1.current)
             IN  [tracker |-> t2, operationId |-> t1.current,
                  sequence |-> OperationSequence(t2, t1.current)]
    ELSE IF category = "RESULT" /\ tr.current # 0
        THEN LET t2 == update_operation(tr, tr.current)
             IN  [tracker |-> end_operation(t2, tr.current), operationId |-> 0,
                  sequence |-> OperationSequence(t2, tr.current)]
    ELSE IF tr.current # 0
        THEN LET t2 == update_operation(tr, tr.current)
             IN  [tracker |-> t2, operationId |-> tr.current,
                  sequence |-> OperationSequence(t2, tr.current)]
    ELSE [tracker |-> tr, operationId |-> 0, sequence |-> 0]

\* The log entry of lines 224-237.
LogEntry(crew, pid, text, level, category, tracked, dedup) ==
    [Event("crew_log", crew, pid, None, text, level) EXCEPT
        !.meta = [category |-> category, operationId |-> tracked.operationId,
                  sequence |-> tracked.sequence, isDuplicate |-> dedup.dup,
                  duplicateCount |-> dedup.count]]

\* if is_duplicate and duplicate_count > 1: continue
Suppressed(dedup) == dedup.dup /\ dedup.count > 1

\* A reader that leaves its loop when a push raises.
PumpAfterEmitStops(ok) == IF ok THEN "reading" ELSE "ended"

\* The reader after the try/except around the emit (lines 242-247): a push
\* that raised is logged and the loop goes on.
PumpAfterEmit(ok) == "reading"

----------------------------------------------------------------------------
(* The subprocess and the stream task *)

Pump(st, level) == IF level = "info" THEN st.info ELSE st.error
SetPump(st, level, v) == IF level = "info" THEN [st EXCEPT !.info = v] ELSE [st EXCEPT !.error = v]

\* The subprocess exits; its returncode becomes observable.
ProcExit(pid, code) ==
    /\ pid \in 1..Len(procs)
    /\ procs[pid].returncode = None
    /\ procs' = [procs EXCEPT ![pid].returncode = code]
    /\ UNCHANGED <<running_crews, streams, calls, activity, pushed, recent_logs,
                   tracker, platform_system>>

\* How many events of a type an event log holds for process pid.
EventCount(log, type, pid) ==
    BagCardinality([ev \in {e \in BagToSet(log) : e.type = type /\ e.pid = pid}
                        |-> log[ev]])

LogCount(log, pid) == EventCount(log, "crew_log", pid)

\* Fewer than max lines of process pid were pushed and the text was seen
\* fewer than max times: the budget that keeps the runs finite.
LinesLeft(pid, text, max) ==
    /\ pid \in 1..Len(procs)
    /\ LogCount(pushed, pid) < max
    /\ SeenCount(recent_logs, text) < max

\* One iteration of _read_stream: readline returns a line the subprocess
\* wrote to stdout ("info") or stderr ("error"); it is classified, tracked,
\* deduplicated and, unless suppressed, recorded and pushed.
ReadLine(pid, level, text, within, ok) ==
    /\ pid \in 1..Len(procs)
    /\ Pump(streams[pid], level) = "reading"
    /\ LET category == categorize_log(text)
           tracked == TrackLine(tracker, category)
           dedup == is_duplicate(recent_logs, text, within)
           entry == LogEntry(procs[pid].crew, pid, text, level, category, tracked, dedup)
       IN  /\ IF text = <<>>
                THEN UNCHANGED <<tracker, recent_logs, activity, pushed, streams>>
              ELSE /\ tracker' = tracked.tracker
                   /\ recent_logs' = SetSeen(recent_logs, text, dedup.count)
                   /\ IF Suppressed(dedup)
                        THEN UNCHANGED <<activity, pushed, streams>>
                        ELSE /\ activity' = RecordActivity(activity, entry)
                             /\ pushed' = Emit(pushed, entry)
                             /\ streams' = [streams EXCEPT ![pid] =
                                   [SetPump(@, level, PumpAfterEmit(ok)) EXCEPT
                                       !.failed_at = IF @ = 0 /\ ~ok
                                                       THEN LogCount(pushed, pid) + 1
                                                       ELSE @]]
    /\ UNCHANGED <<running_crews, procs, calls, platform_system>>

\* readline returns nothing: the writer is gone and the pipe is drained.
ReadEOF(pid, level) ==
    /\ pid \in 1..Len(procs)
    /\ Pump(streams[pid], level) = "reading"
    /\ procs[pid].returncode # None
    /\ streams' = [streams EXCEPT ![pid] = SetPump(@, level, "ended")]
    /\ UNCHANGED <<running_crews, procs, calls, activity, pushed, recent_logs,
                   tracker, platform_system>>

\* readline raises: the reader logs the error and leaves its loop.
ReadError(pid, level) ==
    /\ pid \in 1..Len(procs)
    /\ Pump(streams[pid], level) = "reading"
    /\ streams' = [streams EXCEPT ![pid] = SetPump(@, level, "ended")]
    /\ UNCHANGED <<running_crews, procs, calls, activity, pushed, recent_logs,
                   tracker, platform_system>>

\* Readers that are left running when the stream task ends.
PumpNotCancelled(v) == v

\* stdout_task.cancel(); stderr_task.cancel(); await asyncio.gather(...)
PumpAfterCancel(v) == "ended"

CancelPumps(st) ==
    [st EXCEPT !.info = PumpAfterCancel(@), !.error = PumpAfterCancel(@)]

\* await process.wait() returns: the exit is observed, the readers are
\* cancelled and awaited (the finally clause up to on_stop).
WaitReturn(pid) ==
    /\ pid \in 1..Len(procs)
    /\ streams[pid].pc = "streaming"
    /\ procs[pid].returncode # None
    /\ streams' = [streams EXCEPT ![pid] =
                      [CancelPumps(@) EXCEPT !.pc = "exiting",
                                             !.return_code = procs[pid].returncode]]
    /\ UNCHANGED <<running_crews, procs, calls, activity, pushed, recent_logs,
                   tracker, platform_system>>

\* await process.wait() raises: an error crew_log is recorded and pushed, the
\* exit code is whatever returncode holds, then the finally clause runs.
WaitError(pid) ==
    /\ pid \in 1..Len(procs)
    /\ streams[pid].pc = "streaming"
    /\ LET payload == Event("crew_log", procs[pid].crew, pid, None,
                            <<"Error in log streaming">>, "error")
       IN  /\ activity' = RecordActivity(activity, payload)
           /\ pushed' = Emit(pushed, payload)
    /\ streams' = [streams EXCEPT ![pid] =
                      [CancelPumps(@) EXCEPT !.pc = "exiting",
                                             !.return_code = procs[pid].returncode]]
    /\ UNCHANGED <<running_crews, procs, calls, recent_logs, tracker, platform_system>>

\* on_stop -> CrewRuntime._handle_process_exit, up to the await of the emit:
\* the handle is popped, crew_stopped recorded and pushed.
HandleProcessExit(pid) ==
    /\ pid \in 1..Len(procs)
    /\ streams[pid].pc = "exiting"
    /\ LET payload == Event("crew_stopped", procs[pid].crew, pid,
                            streams[pid].return_code, "stopped", "")
       IN  /\ running_crews' = PopHandle(running_crews, procs[pid].crew)
           /\ activity' = RecordActivity(activity, payload)
           /\ pushed' = Emit(pushed, payload)
    /\ streams' = [streams EXCEPT ![pid].pc = "updating"]
    /\ UNCHANGED <<procs, calls, recent_logs, tracker, platform_system>>

\* _emit_crew_update: the crew is loaded from storage (loaded is whether that
\* yields a crew) and crew_updated pushed with its derived status.
EmitCrewUpdate(pid, loaded) ==
    /\ pid \in 1..Len(procs)
    /\ streams[pid].pc = "updating"
    /\ LET crew == procs[pid].crew
           status == IF HasHandle(running_crews, crew) THEN "running" ELSE "ready"
       IN  pushed' = IF loaded
                       THEN Emit(pushed, Event("crew_updated", crew, 0, None, status, ""))
                       ELSE pushed
    /\ streams' = [streams EXCEPT ![pid].pc = "done"]
    /\ UNCHANGED <<running_crews, procs, calls, activity, recent_logs, tracker,
                   platform_system>>

----------------------------------------------------------------------------
(* stop_crew *)

\* AsyncProcessWrapper.terminate / kill catch every exception of the Popen
\* call; asyncio's Process lets it through.
SignalRaises(kind, failed) == kind = "native" /\ failed

\* stop_crew letting a failure of kill() through to its caller.
StopSignalsKillRaises(kind, tfail, kfail) ==
    LET escalate == SignalRaises(kind, tfail)
    IN  [terminate |-> 1, terminate_failed |-> tfail,
         kill |-> IF escalate THEN 1 ELSE 0,
         kill_failed |-> escalate /\ kfail,
         error |-> IF escalate /\ kfail THEN "kill_error" ELSE ""]

\* stop_crew lines 297-327 for a live process: terminate() is called; if the
\* call raises, kill() is called; if that raises too it is logged.
\* tfail, kfail: whether the operating system refuses the signal.
StopSignals(kind, tfail, kfail) ==
    LET escalate == SignalRaises(kind, tfail)
    IN  [terminate |-> 1, terminate_failed |-> tfail,
         kill |-> IF escalate THEN 1 ELSE 0,
         kill_failed |-> escalate /\ kfail,
         error |-> ""]

\* stop_crew dropping the handle it signalled.
StopMapPops(rc, id) == PopHandle(rc, id)

\* stop_crew never assigns to self.running_crews.
StopMap(rc, id) == rc

\* CrewRuntime.stop_crew on input raw_id, the map being rc and the processes
\* ps: the exception it raises ("" when it returns), what it found, and the
\* terminate() and kill() calls it made.
StopResult(rc, ps, raw_id, tfail, kfail) ==
    LET norm == normalize_crew_identifier(raw_id)
        found == norm.ok /\ HasHandle(rc, norm.id)
        pid == IF found THEN rc[norm.id].process ELSE 0
        exited == found /\ ps[pid].returncode # None
        live == found /\ ~exited
        sig == StopSignals(IF found THEN ps[pid].kind ELSE "", tfail, kfail)
    IN  [error |-> IF ~norm.ok THEN "invalid_id" ELSE IF live THEN sig.error ELSE "",
         id |-> norm.id, found |-> found, exited |-> exited, pid |-> pid,
         terminate |-> IF live THEN sig.terminate ELSE 0,
         terminate_failed |-> live /\ sig.terminate_failed,
         kill |-> IF live THEN sig.kill ELSE 0,
         kill_failed |-> live /\ sig.kill_failed]

\* CrewRuntime.stop_crew, whole (it has no await): it signals the operating
\* system's process and leaves the program's state as it is.
StopCrew(raw, tfail, kfail) ==
    LET out == StopResult(running_crews, procs, raw, tfail, kfail)
    IN  /\ running_crews' = IF out.error = "invalid_id" THEN running_crews
                            ELSE StopMap(running_crews, out.id)
        /\ UNCHANGED <<procs, streams, calls, activity, pushed, recent_logs,
                       tracker, platform_system>>

----------------------------------------------------------------------------
(* Specification *)

\* A step of the crew runtime leaves the clocked components as they are.
CrewStep == UNCHANGED <<now, storeVars, dedupVars, trackerVars, metricsVars, lateVars>>

Next ==
    \/ \E via \in Vias, raw \in RawIds, fs \in FsOutcomes, ok \in BOOLEAN :
          StartRequest(via, raw, fs, ok) /\ CrewStep
    \/ \E c \in 1..MaxCalls, ok \in BOOLEAN : Len(procs) < MaxProcs /\ SpawnDone(c, ok) /\ CrewStep
    \/ \E c \in 1..MaxCalls : SpawnFail(c) /\ CrewStep
    \/ \E c \in 1..MaxCalls, ack_ok \in BOOLEAN : EmitStartedReturn(c, ack_ok) /\ CrewStep
    \/ \E c \in 1..MaxCalls : EmitStartedRaise(c) /\ CrewStep
    \/ \E pid \in 1..MaxProcs, code \in ExitCodes : ProcExit(pid, code) /\ CrewStep
    \/ \E pid \in 1..MaxProcs, level \in Levels, text \in LogTexts,
          within \in BOOLEAN, ok \in BOOLEAN :
          LinesLeft(pid, text, MaxLines) /\ ReadLine(pid, level, text, within, ok) /\ CrewStep
    \/ \E pid \in 1..MaxProcs, level \in Levels : ReadEOF(pid, level) /\ CrewStep
    \/ \E pid \in 1..MaxProcs, level \in Levels : ReadError(pid, level) /\ CrewStep
    \/ \E pid \in 1..MaxProcs : WaitReturn(pid) /\ CrewStep
    \/ \E pid \in 1..MaxProcs : WaitError(pid) /\ CrewStep
    \/ \E pid \in 1..MaxProcs : HandleProcessExit(pid) /\ CrewStep
    \/ \E pid \in 1..MaxProcs, loaded \in BOOLEAN : EmitCrewUpdate(pid, loaded) /\ CrewStep
    \/ \E raw \in RawIds, tfail \in BOOLEAN, kfail \in BOOLEAN : StopCrew(raw, tfail, kfail) /\ CrewStep

Spec == Init /\ [][Next]_vars

\* Two runs side by side: the start path, the exits and the stream
\* completion of up to MaxRaceProcs subprocesses, no log lines.
NextRace ==
    \/ \E via \in Vias, raw \in RawIds, fs \in FsOutcomes, ok \in BOOLEAN :
          StartRequest(via, raw, fs, ok) /\ CrewStep
    \/ \E c \in 1..MaxCalls, ok \in BOOLEAN : Len(procs) < MaxRaceProcs /\ SpawnDone(c, ok) /\ CrewStep
    \/ \E c \in 1..MaxCalls : SpawnFail(c) /\ CrewStep
    \/ \E c \in 1..MaxCalls, ack_ok \in BOOLEAN : EmitStartedReturn(c, ack_ok) /\ CrewStep
    \/ \E c \in 1..MaxCalls : EmitStartedRaise(c) /\ CrewStep
    \/ \E pid \in 1..MaxRaceProcs, code \in ExitCodes : ProcExit(pid, code) /\ CrewStep
    \/ \E pid \in 1..MaxRaceProcs, level \in Levels : ReadEOF(pid, level) /\ CrewStep
    \/ \E pid \in 1..MaxRaceProcs : WaitReturn(pid) /\ CrewStep
    \/ \E pid \in 1..MaxRaceProcs : HandleProcessExit(pid) /\ CrewStep
    \/ \E pid \in 1..MaxRaceProcs, loaded \in BOOLEAN : EmitCrewUpdate(pid, loaded) /\ CrewStep
    \/ \E raw \in RawIds, tfail \in BOOLEAN, kfail \in BOOLEAN : StopCrew(raw, tfail, kfail) /\ CrewStep

SpecRace == Init /\ [][NextRace]_vars

\* One run and its log stream: a crew is started, writes up to MaxPumpLines
\* lines and exits.
NextPump ==
    \/ \E via \in Vias, ok \in BOOLEAN : StartRequest(via, <<"a">>, "ok", ok) /\ CrewStep
    \/ \E c \in 1..MaxCalls, ok \in BOOLEAN : Len(procs) < MaxProcs /\ SpawnDone(c, ok) /\ CrewStep
    \/ \E c \in 1..MaxCalls, ack_ok \in BOOLEAN : EmitStartedReturn(c, ack_ok) /\ CrewStep
    \/ \E c \in 1..MaxCalls : EmitStartedRaise(c) /\ CrewStep
    \/ \E pid \in 1..MaxProcs, code \in ExitCodes : ProcExit(pid, code) /\ CrewStep
    \/ \E pid \in 1..MaxProcs, level \in Levels, text \in LogTexts,
          within \in BOOLEAN, ok \in BOOLEAN :
          LinesLeft(pid, text, MaxPumpLines) /\ ReadLine(pid, level, text, within, ok) /\ CrewStep
    \/ \E pid \in 1..MaxProcs, level \in Levels : ReadEOF(pid, level) /\ CrewStep
    \/ \E pid \in 1..MaxProcs, level \in Levels : ReadError(pid, level) /\ CrewStep
    \/ \E pid \in 1..MaxProcs : WaitReturn(pid) /\ CrewStep
    \/ \E pid \in 1..MaxProcs : WaitError(pid) /\ CrewStep
    \/ \E pid \in 1..MaxProcs : HandleProcessExit(pid) /\ CrewStep
    \/ \E pid \in 1..MaxProcs, loaded \in BOOLEAN : EmitCrewUpdate(pid, loaded) /\ CrewStep

SpecPump == Init /\ [][NextPump]_vars

----------------------------------------------------------------------------
(* activity_store.py: ActivityStore *)

max_events == 2
retention == 1
MaxTime == 2
MaxAdds == 3

\* The threads that call add_event.
Threads == {1, 2}

\* The event types offered to add_event: one tracked, one not.
StoreTypes == {"crew_log", "crew_update"}

\* The payloads offered to add_event: a dict, or a mutable value that is not one.
Payloads == {"dict", "list"}

IsTrackedAlways(event_type) == TRUE

\* add_event line 59
IsTracked(event_type) == event_type \in TrackedEvents

\* _utcnow().isoformat().replace("+00:00", "Z")
Isoformat(t) == <<t, "Z">>

\* _parse_timestamp: the time a timestamp string stands for, the current time
\* when it does not parse.
_parse_timestamp(raw, t) ==
    IF Len(raw) = 2 /\ raw[2] = "Z" /\ raw[1] \in Int THEN raw[1] ELSE t

\* add_event line 62: a dict payload is deep-copied, any other payload is stored
\* as the caller's own object. The entry built at lines 70-75 is the object
\* add_event returns at line 81: shared tells which objects the caller holds
\* are the stored ones.
Entry(event_id, event_type, timestamp, payload) ==
    [id |-> event_id, type |-> event_type, timestamp |-> timestamp, data |-> payload,
     shared |-> IF payload = "dict" THEN "entry" ELSE "payload"]

\* What an event shows to a reader: deepcopy(event), and its JSON form.
VisibleEvent(e) == [id |-> e.id, type |-> e.type, timestamp |-> e.timestamp, data |-> e.data]

Visible(evs) == [i \in 1..Len(evs) |-> VisibleEvent(evs[i])]

\* json.load of one event: a fresh object no caller holds.
Decoded(e) == [id |-> e.id, type |-> e.type, timestamp |-> e.timestamp, data |-> e.data,
               shared |-> "no"]

_enforce_keeps_head(evs) ==
    IF Len(evs) > max_events THEN SubSeq(evs, 1, max_events) ELSE evs

\* _enforce_max_events_locked: del self._events[: len - max_events]
_enforce_max_events_locked(evs) ==
    IF Len(evs) > max_events
    THEN SubSeq(evs, Len(evs) - max_events + 1, Len(evs))
    ELSE evs

\* The while loop of _prune_locked: pops from the front while the first event
\* is older than the cutoff.
RECURSIVE PopExpired(_, _, _)
PopExpired(evs, cutoff, t) ==
    IF evs # <<>> /\ _parse_timestamp(evs[1].timestamp, t) < cutoff
    THEN PopExpired(Tail(evs), cutoff, t)
    ELSE evs

\* _prune_locked of a store without retention: if not self.retention: return False
_prune_without_retention(evs, t) == [events |-> evs, removed |-> FALSE]

\* _prune_locked at time t
_prune_locked(evs, t) ==
    LET kept == PopExpired(evs, t - retention, t)
        removed == kept # evs
    IN  [events |-> IF removed THEN _enforce_max_events_locked(kept) ELSE kept,
         removed |-> removed]

\* _persist_locked: the payload json.dump writes.
Persisted(nid, evs) == [next_id |-> nid, events |-> Visible(evs), exists |-> TRUE]

\* max((event.get("id", 0) for event in events), default=0)
MaxId(evs) ==
    IF evs = <<>> THEN 0
    ELSE CHOOSE m \in {evs[i].id : i \in 1..Len(evs)} :
             \A i \in 1..Len(evs) : evs[i].id <= m

LoadedNextIdFromEvents(f, evs) == MaxId(evs) + 1

\* _load_persisted_events lines 168-173
LoadedNextId(f, evs) == IF f.next_id > 0 THEN f.next_id ELSE MaxId(evs) + 1

\* _load_persisted_events at time t on a store holding evs and nid
_load_persisted_events(f, evs, nid, t) ==
    IF ~f.exists THEN [events |-> evs, next_id |-> nid]
    ELSE LET loaded == [i \in 1..Len(f.events) |-> Decoded(f.events[i])]
             kept == _enforce_max_events_locked(_prune_locked(loaded, t).events)
         IN  [events |-> kept, next_id |-> LoadedNextId(f, kept)]

\* get_events at time t: the events that stay, and the copies returned.
GetEventsResult(evs, t) == Visible(_prune_locked(evs, t).events)

\* The clock advances; nothing else changes.
Tick ==
    /\ now' = now + 1
    /\ UNCHANGED <<crewVars, broadcastVars, storeVars, dedupVars, trackerVars, metricsVars, lateVars>>

\* add_event lines 59-63: an untracked type returns None at once; otherwise the
\* caller thread takes the snapshot and the timestamp, then waits for the lock.
AddEventEnter(th, event_type, payload) ==
    /\ \A a \in adders : a.thread # th
    /\ IF ~IsTracked(event_type)
       THEN /\ add_result' = "None"
            /\ UNCHANGED <<now, events, next_id, file, adders, assigned, listed>>
       ELSE /\ Len(assigned) + Cardinality(adders) < MaxAdds
            /\ next_id + Cardinality(adders) <= MaxAdds
            /\ adders' = adders \cup {[thread |-> th, type |-> event_type,
                                       timestamp |-> Isoformat(now), payload |-> payload]}
            /\ UNCHANGED <<now, events, next_id, file, assigned, listed, add_result>>

\* add_event lines 65-81: the part under the lock. wok: the file write succeeds.
AddEventLocked(th, wok) ==
    \E a \in adders :
        /\ a.thread = th
        /\ LET pruned == _prune_locked(events, now).events
               entry == Entry(next_id, a.type, a.timestamp, a.payload)
               kept == _enforce_max_events_locked(Append(pruned, entry))
           IN  /\ events' = kept
               /\ next_id' = next_id + 1
               /\ file' = IF wok THEN Persisted(next_id + 1, kept) ELSE file
               /\ assigned' = Append(assigned, next_id)
        /\ adders' = adders \ {a}
        /\ add_result' = "entry"
        /\ listed' = <<>>
        /\ UNCHANGED now

\* get_events. The caller holds the list it got until the store next changes.
GetEvents ==
    /\ events' = _prune_locked(events, now).events
    /\ listed' = GetEventsResult(events, now)
    /\ UNCHANGED <<now, next_id, file, adders, assigned, add_result>>

\* prune, also the body of periodic_prune
Prune(wok) ==
    LET pruned == _prune_locked(events, now)
    IN  /\ pruned.removed \/ wok
        /\ events' = pruned.events
        /\ file' = IF pruned.removed /\ wok THEN Persisted(next_id, pruned.events) ELSE file
        /\ listed' = <<>>
        /\ UNCHANGED <<now, next_id, adders, assigned, add_result>>

\* load_persisted_events on the running instance (main.capture_main_event_loop)
LoadPersistedEvents ==
    LET loaded == _load_persisted_events(file, events, next_id, now)
    IN  /\ events' = loaded.events
        /\ next_id' = loaded.next_id
        /\ listed' = <<>>
        /\ UNCHANGED <<now, file, adders, assigned, add_result>>

\* The process ends and a new ActivityStore is constructed on the same file.
Restart ==
    LET loaded == _load_persisted_events(file, <<>>, 1, now)
    IN  /\ events' = loaded.events
        /\ next_id' = loaded.next_id
        /\ adders' = {}
        /\ assigned' = <<>>
        /\ listed' = <<>>
        /\ add_result' = ""
        /\ UNCHANGED <<now, file>>

\* The caller of add_event changes an object it holds: the payload it passed
\* or the entry it got back.
MutateCallerObject(i, object) ==
    /\ i \in 1..Len(events)
    /\ events[i].data # "changed"
    /\ \/ object = "payload" /\ events[i].shared = "payload"
       \/ object = "entry" /\ events[i].shared \in {"entry", "payload"}
    /\ events' = [events EXCEPT ![i].data = "changed"]
    /\ UNCHANGED <<now, next_id, file, adders, assigned, listed, add_result>>

\* The caller of get_events changes an event of the list it got.
MutateListed(i) ==
    /\ i \in 1..Len(listed)
    /\ listed[i].data # "changed"
    /\ listed' = [listed EXCEPT ![i].data = "changed"]
    /\ UNCHANGED <<now, events, next_id, file, adders, assigned, add_result>>

StoreStep == UNCHANGED <<crewVars, broadcastVars, dedupVars, trackerVars, metricsVars, lateVars>>

NextStore ==
    \/ now < MaxTime /\ Tick
    \/ \E th \in Threads, event_type \in StoreTypes, payload \in Payloads :
          AddEventEnter(th, event_type, payload) /\ StoreStep
    \/ \E th \in Threads, wok \in BOOLEAN : AddEventLocked(th, wok) /\ StoreStep
    \/ GetEvents /\ StoreStep
    \/ \E wok \in BOOLEAN : Prune(wok) /\ StoreStep
    \/ LoadPersistedEvents /\ StoreStep
    \/ Restart /\ StoreStep
    \/ \E i \in 1..max_events, object \in {"payload", "entry"} :
          MutateCallerObject(i, object) /\ StoreStep
    \/ \E i \in 1..max_events : MutateListed(i) /\ StoreStep

\* The clocked components do not depend on the host platform.
InitClocked == Init /\ platform_system = "Linux"

SpecStore == InitClocked /\ [][NextStore]_vars

\* The store with its periodic prune task (main.capture_main_event_loop starts
\* periodic_prune on a positive interval). Events are recorded while the clock
\* leaves room for them to expire.
MaxPruneTime == 3

PruneClock == now < MaxPruneTime /\ Tick

\* periodic_prune: after each sleep, self.prune()
PeriodicPrune == \E wok \in BOOLEAN : Prune(wok) /\ StoreStep

NextPrune ==
    \/ PruneClock
    \/ \E th \in Threads, event_type \in StoreTypes :
          /\ now + retention < MaxPruneTime
          /\ AddEventEnter(th, event_type, "dict")
          /\ StoreStep
    \/ \E th \in Threads, wok \in BOOLEAN : AddEventLocked(th, wok) /\ StoreStep
    \/ GetEvents /\ StoreStep
    \/ PeriodicPrune

\* Time passes, and the prune task, whose loop never ends, gets its turn.
SpecPrune ==
    /\ InitClocked
    /\ [][NextPrune]_vars
    /\ WF_vars(PruneClock)
    /\ WF_vars(PeriodicPrune)

----------------------------------------------------------------------------
(* crew_broadcast.py: LogDeduplicator and OperationTracker against the clock *)

time_window == 1
max_age_seconds == 1
MaxCleanupTime == 3
MaxSightings == 3
MaxOps == 2
MaxSequence == 2

\* The log entries offered to is_duplicate.
DedupEntries == {[message |-> "m", agent |-> "a"], [message |-> "m", agent |-> "b"]}

\* is_duplicate line 23: the key of an entry. Distinct (message, agent) pairs
\* are taken to hash apart.
LogHash(log_entry) == <<log_entry.message, log_entry.agent>>

\* is_duplicate line 28 at time t
WithinWindow(ls, key, t) == key \in DOMAIN ls /\ t - ls[key] < time_window

ExpiredKeysAll(ls, t) == DOMAIN ls

\* LogDeduplicator.cleanup lines 37-41
ExpiredKeys(ls, t) == {key \in DOMAIN ls : t - ls[key] > time_window}

Without(f, keys) == [k \in (DOMAIN f) \ keys |-> f[k]]

\* LogDeduplicator.is_duplicate
IsDuplicateCall(log_entry) ==
    LET key == LogHash(log_entry)
        result == is_duplicate(recent_logs, key, WithinWindow(last_seen, key, now))
    IN  /\ recent_logs' = SetSeen(recent_logs, key, result.count)
        /\ last_seen' = SetSeen(last_seen, key, now)
        /\ dedup_result' = result
        /\ ref_logs' = [count |-> SetSeen(ref_logs.count, key, result.count),
                        seen |-> SetSeen(ref_logs.seen, key, now)]
        /\ UNCHANGED <<now, crewVars, tracker, storeVars, trackerVars, metricsVars, lateVars>>

\* The part of _read_stream that drives the operation tracker, lines 203-222,
\* with the times start_operation and end_operation store.
TrackerLine(category) ==
    LET tracked == TrackLine(tracker, category).tracker
        started == Len(tracked.operations) > Len(tracker.operations)
        ended == {id \in 1..Len(tracker.operations) :
                      tracked.operations[id].ended /\ ~tracker.operations[id].ended}
        times == [id \in 1..Len(op_times) |->
                      IF id \in ended THEN [op_times[id] EXCEPT !.end_time = now]
                      ELSE op_times[id]]
    IN  /\ tracker' = tracked
        /\ op_times' = IF started
                           THEN Append(times, [start_time |-> now, end_time |-> None,
                                               present |-> TRUE])
                           ELSE times
        /\ UNCHANGED <<now, crewVars, recent_logs, storeVars, dedupVars, metricsVars, lateVars>>

OperationExpiredByAge(op, t) ==
    \/ op.end_time # None /\ t - op.end_time > max_age_seconds
    \/ op.end_time = None /\ t - op.start_time > max_age_seconds

\* cleanup_completed_operations lines 88-93
OperationExpired(op, t) == op.end_time # None /\ t - op.end_time > max_age_seconds

\* CrewBroadcaster.cleanup, the body of CrewRuntime._cleanup_worker
Cleanup ==
    LET expired == ExpiredKeys(last_seen, now)
    IN  /\ recent_logs' = Without(recent_logs, expired)
        /\ last_seen' = Without(last_seen, expired)
        /\ op_times' = [id \in 1..Len(op_times) |->
                            IF op_times[id].present /\ OperationExpired(op_times[id], now)
                            THEN [op_times[id] EXCEPT !.present = FALSE]
                            ELSE op_times[id]]
        /\ UNCHANGED <<now, crewVars, tracker, storeVars, ref_logs, dedup_result, metricsVars, lateVars>>

NextCleanup ==
    \/ now < MaxCleanupTime /\ Tick
    \/ \E log_entry \in DedupEntries :
          /\ SeenCount(ref_logs.count, LogHash(log_entry)) < MaxSightings
          /\ IsDuplicateCall(log_entry)
    \/ \E category \in {"SEARCH", "RESULT", "INFO"} :
          /\ Len(tracker.operations) < MaxOps \/ tracker.current # 0 \/ category # "SEARCH"
          /\ OperationSequence(tracker, tracker.current) < MaxSequence
          /\ TrackerLine(category)
    \/ Cleanup

SpecCleanup == InitClocked /\ [][NextCleanup]_vars

----------------------------------------------------------------------------
(* main.py: request metrics *)

REQUEST_METRICS_WINDOW_SECONDS == 1
MaxMetricsTime == 3
MaxSamples == 3

PopAllExpiredSamples(samples, cutoff) ==
    SelectSeq(samples, LAMBDA sample : sample.timestamp >= cutoff)

\* _prune_request_samples_locked lines 225-226: popleft while the first sample
\* is older than the cutoff.
RECURSIVE PopExpiredSamples(_, _)
PopExpiredSamples(samples, cutoff) ==
    IF samples # <<>> /\ samples[1].timestamp < cutoff
    THEN PopExpiredSamples(Tail(samples), cutoff)
    ELSE samples

\* MetricsStore.prune_request_metrics: DELETE ... WHERE timestamp < cutoff
prune_request_metrics(records, cutoff) ==
    SelectSeq(records, LAMBDA record : record.timestamp >= cutoff)

\* ORDER BY timestamp ASC
RECURSIVE OrderByTimestamp(_)
OrderByTimestamp(records) ==
    IF records = <<>> THEN <<>>
    ELSE LET first == CHOOSE i \in 1..Len(records) :
                          \A j \in 1..Len(records) :
                              \/ records[i].timestamp < records[j].timestamp
                              \/ records[i].timestamp = records[j].timestamp /\ i <= j
         IN  <<records[first]>> \o
             OrderByTimestamp(SubSeq(records, 1, first - 1)
                                \o SubSeq(records, first + 1, Len(records)))

\* MetricsStore.fetch_request_metrics_since
fetch_request_metrics_since(records, cutoff) ==
    OrderByTimestamp(prune_request_metrics(records, cutoff))

\* The summary _recalculate_request_metrics_locked builds from the samples:
\* sample count and error count (the latency figures are left out).
Summary(samples) ==
    [requests |-> Len(samples),
     errors |-> Len(SelectSeq(samples, LAMBDA sample : sample.is_error))]

\* _recalculate_request_metrics_locked(t) on the given samples and table
Recalculate(samples, records, t) ==
    LET cutoff == t - REQUEST_METRICS_WINDOW_SECONDS
        kept == PopExpiredSamples(samples, cutoff)
    IN  /\ request_metrics_samples' = kept
        /\ metrics_store' = prune_request_metrics(records, cutoff)
        /\ request_metrics_summary' = Summary(kept)

MetricsStep == UNCHANGED <<now, crewVars, broadcastVars, storeVars, dedupVars, trackerVars, lateVars>>

\* _record_request_metric(duration_ms, is_error, timestamp=timestamp)
RecordRequestMetric(timestamp, is_error) ==
    LET sample == [timestamp |-> timestamp, is_error |-> is_error]
    IN  /\ Recalculate(Append(request_metrics_samples, sample),
                       Append(metrics_store, sample), timestamp)
        /\ MetricsStep

\* get_request_metrics
GetRequestMetrics ==
    /\ Recalculate(request_metrics_samples, metrics_store, now)
    /\ MetricsStep

\* _reload_metrics_from_persistence, when the module is imported anew
ReloadMetrics ==
    LET cutoff == now - REQUEST_METRICS_WINDOW_SECONDS
        records == prune_request_metrics(metrics_store, cutoff)
    IN  /\ Recalculate(fetch_request_metrics_since(records, cutoff), records, now)
        /\ MetricsStep

NextMetrics ==
    \/ now < MaxMetricsTime /\ Tick
    \/ \E timestamp \in 0..MaxMetricsTime, is_error \in BOOLEAN :
          /\ timestamp <= now
          /\ Len(request_metrics_samples) < MaxSamples
          /\ RecordRequestMetric(timestamp, is_error)
    \/ GetRequestMetrics
    \/ ReloadMetrics

SpecMetrics == InitClocked /\ [][NextMetrics]_vars

----------------------------------------------------------------------------
(* crew_manager.py / crew_runtime.py: scheduling of the cleanup worker *)

MaxCallbacks == 2

TaskIsLiveNever(task) == FALSE

\* self._cleanup_task and not self._cleanup_task.done()
TaskIsLive(task) == task = "live"

SchedStep ==
    UNCHANGED <<now, crewVars, broadcastVars, storeVars, dedupVars, trackerVars, metricsVars,
                historyVars, pureVars, aloneVars>>

\* CrewManager._schedule_cleanup (CrewRuntime.schedule_cleanup is the same code
\* on the same fields). loop_running: asyncio.get_running_loop() returns a loop;
\* call_soon on a running loop does not raise.
ScheduleCleanup(loop_running) ==
    /\ IF TaskIsLive(cleanup_task)
       THEN UNCHANGED <<cleanup_pending, callbacks>>
       ELSE IF ~loop_running
       THEN cleanup_pending' = TRUE /\ UNCHANGED callbacks
       ELSE cleanup_pending' = FALSE /\ callbacks' = callbacks + 1
    /\ last_schedule' = IF loop_running THEN "loop" ELSE "no loop"
    /\ UNCHANGED <<cleanup_task, workers>>
    /\ SchedStep

\* The event loop runs a queued _start_cleanup_task; create_task inside the
\* loop succeeds.
StartCleanupTask ==
    /\ callbacks > 0
    /\ callbacks' = callbacks - 1
    /\ IF TaskIsLive(cleanup_task)
       THEN UNCHANGED <<cleanup_task, workers>>
       ELSE cleanup_task' = "live" /\ workers' = workers + 1
    /\ UNCHANGED <<cleanup_pending, last_schedule>>
    /\ SchedStep

\* _cleanup_worker lines 58-59: the worker is cancelled and ends.
WorkerCancelled ==
    /\ workers > 0
    /\ workers' = workers - 1
    /\ cleanup_task' = IF workers = 1 THEN "done" ELSE cleanup_task
    /\ UNCHANGED <<cleanup_pending, callbacks, last_schedule>>
    /\ SchedStep

\* _cleanup_worker lines 55-56: the worker wakes and cleans.
WorkerCleanup == workers > 0 /\ Cleanup

NextSchedule ==
    \/ \E loop_running \in BOOLEAN : callbacks < MaxCallbacks /\ ScheduleCleanup(loop_running)
    \/ StartCleanupTask
    \/ WorkerCancelled
    \/ WorkerCleanup
    \/ now < MaxCleanupTime /\ Tick
    \/ \E log_entry \in DedupEntries :
          /\ SeenCount(ref_logs.count, LogHash(log_entry)) < MaxSightings
          /\ IsDuplicateCall(log_entry)

SpecSchedule == InitClocked /\ [][NextSchedule]_vars

----------------------------------------------------------------------------
(* main.py: system-stats history *)

SYSTEM_STATS_RETENTION_SECONDS == 2
MaxHistoryTime == 3
MaxStats == 2

\* SYSTEM_STATS_HISTORY_WINDOWS, the window lengths in ticks
SYSTEM_STATS_HISTORY_WINDOWS == ("1h" :> 1) @@ ("24h" :> 2)

\* The window keys a client sends.
WindowKeys == {"1h", "24h", "invalid", ""}

HistoryStatusAlwaysOk(raised) == 200

\* get_system_stats_history lines 520-525: ValueError becomes HTTP 400
HistoryStatus(raised) == IF raised THEN 400 ELSE 200

\* MetricsStore.fetch_system_stats_since
fetch_system_stats_since(records, cutoff) ==
    OrderByTimestamp(SelectSeq(records, LAMBDA record : record.timestamp >= cutoff))

\* build_history_payload for a supported window at time t: every stored entry
\* carries one numeric metric.
build_history_payload(window_key, records, t) ==
    LET relevant_entries ==
            fetch_system_stats_since(records, t - SYSTEM_STATS_HISTORY_WINDOWS[window_key])
    IN  [status |-> HistoryStatus(FALSE), window |-> window_key,
         sample_count |-> Len(relevant_entries)]

HistoryStep ==
    UNCHANGED <<now, crewVars, broadcastVars, storeVars, dedupVars, trackerVars, metricsVars,
                schedVars, pureVars, aloneVars>>

\* add_stats_to_history(stats, timestamp=timestamp)
AddStatsToHistory(timestamp, usage) ==
    LET entry == [timestamp |-> timestamp, stats |-> usage]
        cutoff == timestamp - SYSTEM_STATS_RETENTION_SECONDS
    IN  /\ stats_table' = SelectSeq(Append(stats_table, entry),
                                    LAMBDA record : record.timestamp >= cutoff)
        /\ system_stats_history' = PopExpiredSamples(Append(system_stats_history, entry), cutoff)
        /\ UNCHANGED history_response
        /\ HistoryStep

\* GET /system/stats/history?window=window_key
GetSystemStatsHistory(window_key) ==
    /\ history_response' =
           IF window_key \notin DOMAIN SYSTEM_STATS_HISTORY_WINDOWS
           THEN [status |-> HistoryStatus(TRUE), window |-> "", sample_count |-> 0]
           ELSE build_history_payload(window_key, stats_table, now)
    /\ UNCHANGED <<system_stats_history, stats_table>>
    /\ HistoryStep

NextHistory ==
    \/ now < MaxHistoryTime /\ Tick
    \/ \E timestamp \in 0..MaxHistoryTime, usage \in {25, 50} :
          /\ timestamp <= now
          /\ Len(stats_table) < MaxStats
          /\ AddStatsToHistory(timestamp, usage)
    \/ \E window_key \in WindowKeys : GetSystemStatsHistory(window_key)

SpecHistory == InitClocked /\ [][NextHistory]_vars

----------------------------------------------------------------------------
(* Pure functions applied to drawn arguments *)

MaxWords == 2

\* The words log messages are drawn from: keywords of each category, some
\* written with capitals, and a word that is no keyword.
Words == {"SEARCH", "search", "Error", "error", "Analyz", "decid", "result", "run",
          "looking for", "hello"}

Messages == UNION {[1..n -> Words] : n \in 0..MaxWords}

PureStep ==
    UNCHANGED <<now, crewVars, broadcastVars, storeVars, dedupVars, trackerVars, metricsVars,
                schedVars, historyVars, aloneVars>>

\* categorize_log is called with the drawn message.
CategorizeCall ==
    /\ call_result = <<>>
    /\ call_result' = <<categorize_log(call_args)>>
    /\ UNCHANGED call_args
    /\ PureStep

\* Another message arrives.
NextMessage ==
    /\ call_result # <<>>
    /\ call_args' \in Messages
    /\ call_result' = <<>>
    /\ PureStep

InitCategorize ==
    InitBase /\ platform_system = "Linux" /\ call_args \in Messages /\ call_result = <<>>

NextCategorize == CategorizeCall \/ NextMessage

SpecCategorize == InitCategorize /\ [][NextCategorize]_vars

\* main._calculate_percentile. Durations are whole milliseconds and results
\* are in hundredths of a millisecond, so that the interpolation is exact.
MaxDurations == 5

Durations == {10, 20, 30, 40, 50}

Percentiles == {0, 50, 95, 100}

SortedDurations ==
    UNION {{values \in [1..n -> Durations] :
               \A i \in 1..n, j \in 1..n : i < j => values[i] <= values[j]} :
           n \in 0..MaxDurations}

\* k = (len - 1) * (percentile / 100), in hundredths
PercentileIndex(sorted_values, percentile) == (Len(sorted_values) - 1) * percentile

nearest_rank_percentile(sorted_values, percentile) ==
    IF sorted_values = <<>> THEN 0
    ELSE LET k == PercentileIndex(sorted_values, percentile)
             upper_index == IF k % 100 = 0 THEN k \div 100 ELSE (k \div 100) + 1
         IN  100 * sorted_values[upper_index + 1]

_calculate_percentile(sorted_values, percentile) ==
    IF sorted_values = <<>> THEN 0
    ELSE IF Len(sorted_values) = 1 THEN 100 * sorted_values[1]
    ELSE LET k == PercentileIndex(sorted_values, percentile)
             lower_index == k \div 100
             upper_index == IF k % 100 = 0 THEN k \div 100 ELSE (k \div 100) + 1
         IN  IF lower_index = upper_index
             THEN 100 * sorted_values[lower_index + 1]
             ELSE sorted_values[lower_index + 1] * (100 * upper_index - k)
                  + sorted_values[upper_index + 1] * (k - 100 * lower_index)

\* _calculate_percentile is called with the drawn samples.
PercentileCall ==
    /\ call_result = <<>>
    /\ call_result' = <<_calculate_percentile(call_args.values, call_args.percentile)>>
    /\ UNCHANGED call_args
    /\ PureStep

\* Another request for a percentile.
NextSamples ==
    /\ call_result # <<>>
    /\ call_args' \in [values : SortedDurations, percentile : Percentiles]
    /\ call_result' = <<>>
    /\ PureStep

InitPercentile ==
    /\ InitBase /\ platform_system = "Linux"
    /\ call_args \in [values : SortedDurations, percentile : Percentiles]
    /\ call_result = <<>>

NextPercentile == PercentileCall \/ NextSamples

SpecPercentile == InitPercentile /\ [][NextPercentile]_vars

\* The operation tags of the lines one broadcaster processes.
MaxTrackOps == 3
MaxTrackSequence == 3

Categories == {"SEARCH", "ANALYSIS", "DECISION", "RESULT", "ERROR", "ACTION", "INFO"}

\* _read_stream lines 200-233 for a line of the given category: the tracker
\* is driven and the entry gets its operationId and sequence.
ReadStreamLine(category) ==
    LET tracked == TrackLine(tracker, category)
    IN  /\ tracker' = tracked.tracker
        /\ call_args' = <<category>>
        /\ call_result' = <<[operationId |-> tracked.operationId,
                             sequence |-> tracked.sequence]>>
        /\ UNCHANGED <<now, crewVars, recent_logs, storeVars, dedupVars, trackerVars,
                       metricsVars, schedVars, historyVars, aloneVars>>

NextTrack ==
    \E category \in Categories :
        /\ \/ Len(tracker.operations) < MaxTrackOps
           \/ tracker.current # 0
           \/ category \notin {"SEARCH", "ANALYSIS", "DECISION"}
        /\ OperationSequence(tracker, tracker.current) < MaxTrackSequence
        /\ ReadStreamLine(category)

SpecTrack == InitClocked /\ [][NextTrack]_vars

\* Two crews under one manager. CrewManager.__init__ creates one
\* CrewLogBroadcaster, so the readers of every crew share its deduplicator and
\* its operation tracker. Next to it runs a broadcaster that is given the lines
\* of crew "a" only, at the same times. All lines arrive within one time_window.
MaxCrewLines == 3

Crews == {"a", "b"}

CrewLines == {<<"search">>, <<"result">>, <<"hello">>}

\* What _read_stream does with a line: whether it is pushed, and the operation
\* tag on it (timestamps differ from run to run, so of the operation id only
\* its presence is kept).
Delivery(tracked, dedup) ==
    [pushed |-> ~Suppressed(dedup), tagged |-> tracked.operationId # 0,
     sequence |-> tracked.sequence]

\* _read_stream lines 200-240 for a line of a crew.
CrewLine(crew, text) ==
    LET category == categorize_log(text)
        tracked == TrackLine(tracker, category)
        dedup == is_duplicate(recent_logs, text, TRUE)
        alone_tracked == TrackLine(alone_tracker, category)
        alone_dedup == is_duplicate(alone_logs, text, TRUE)
    IN  /\ tracker' = tracked.tracker
        /\ recent_logs' = SetSeen(recent_logs, text, dedup.count)
        /\ call_args' = <<crew, text>>
        /\ IF crew = "a"
           THEN /\ alone_tracker' = alone_tracked.tracker
                /\ alone_logs' = SetSeen(alone_logs, text, alone_dedup.count)
                /\ call_result' = <<Delivery(tracked, dedup),
                                    Delivery(alone_tracked, alone_dedup)>>
           ELSE /\ UNCHANGED aloneVars
                /\ call_result' = <<>>
        /\ UNCHANGED <<now, crewVars, storeVars, dedupVars, trackerVars, metricsVars,
                       schedVars, historyVars>>

NextCrews ==
    \E crew \in Crews, text \in CrewLines :
        /\ SeenCount(recent_logs, text) < MaxCrewLines
        /\ Len(tracker.operations) < MaxTrackOps \/ tracker.current # 0
        /\ OperationSequence(tracker, tracker.current) < MaxTrackSequence
        /\ CrewLine(crew, text)

SpecCrews == InitClocked /\ [][NextCrews]_vars

----------------------------------------------------------------------------
(* Properties *)

Has(log, type, pid) == EventCount(log, type, pid) > 0

\* An event of the type for process pid was added from log old to log new.
Grew(old, new, type, pid) == EventCount(new, type, pid) > EventCount(old, type, pid)

\* The crew_log events process pid sent on one stream.
LevelCount(log, pid, level) ==
    BagCardinality([ev \in {e \in BagToSet(log) : e.type = "crew_log" /\ e.pid = pid
                                                   /\ e.level = level}
                        |-> log[ev]])

\* The map holds a handle whose process is pid.
HandleOf(pid) == \E id \in DOMAIN running_crews : running_crews[id].process = pid

Live(pid) == procs[pid].returncode = None

\* The run of process pid has nothing left to execute: the start_crew call
\* that spawned it has ended and its stream task was never created or is over.
Quiescent(pid) ==
    /\ streams[pid].pc \in {"none", "done"}
    /\ \A c \in 1..Len(calls) : calls[c].pid # pid

\* C1: concurrent start_crew calls for one crew identifier never leave two
\* live subprocesses of that crew at the same time.
C1_OneLiveProcessPerCrew ==
    \A p \in 1..Len(procs), q \in 1..Len(procs) :
        (p # q /\ procs[p].crew = procs[q].crew) => ~(Live(p) /\ Live(q))

\* C2: for every run whose handle was recorded, once the subprocess has
\* exited and the run has nothing left to execute, the handle is gone and
\* exactly one crew_stopped carrying the exit code was recorded and pushed;
\* stop_crew on a crew without a handle signals nothing.
C2_ExitedRunIsCleanedUp ==
    /\ \A pid \in 1..Len(procs) :
          (~Live(pid) /\ Quiescent(pid)) =>
              /\ ~HandleOf(pid)
              /\ EventCount(activity, "crew_stopped", pid) = 1
              /\ EventCount(pushed, "crew_stopped", pid) = 1
              /\ \A ev \in BagToSet(pushed) :
                    (ev.type = "crew_stopped" /\ ev.pid = pid) =>
                        ev.code = procs[pid].returncode
    /\ \A raw \in RawIds, tfail \in BOOLEAN, kfail \in BOOLEAN :
          LET out == StopResult(running_crews, procs, raw, tfail, kfail)
          IN  ~out.found => (out.terminate = 0 /\ out.kill = 0)

\* A step that changes the running-crews map is start_crew recording a
\* handle or the stream-completion path removing one.
C3_MapChange ==
    running_crews' # running_crews =>
        \/ \E pid \in 1..Len(procs) :
              /\ streams[pid].pc = "exiting"
              /\ streams'[pid].pc = "updating"
              /\ running_crews' = PopHandle(running_crews, procs[pid].crew)
        \/ /\ Len(procs') = Len(procs) + 1
           /\ running_crews' = RecordHandle(running_crews, procs'[Len(procs')].crew,
                                            Len(procs'))

C4_Entry ==
    \A via \in Vias, raw \in RawIds, fs \in FsOutcomes, ok \in BOOLEAN :
        LET norm == normalize_crew_identifier(HandlerCrewId(via, raw))
            out == StartEntry(running_crews, via, raw, fs, ok)
        IN  (HandlerPrecheck(via, raw) = "" /\ norm.ok /\ HasHandle(running_crews, norm.id))
              => /\ out.error = "already_running"
                 /\ \A i \in 1..Len(out.recorded) : out.recorded[i].type = "crew_error"
                 /\ \A i \in 1..Len(out.pushed) : out.pushed[i].type = "crew_error"

\* A start request goes on to the spawn only for a crew without a handle,
\* and its arrival changes neither the map nor the processes nor the streams.
C4_Step ==
    Len(calls') > Len(calls) =>
        LET call == calls'[Len(calls')]
        IN  /\ call.pc = "spawn" => ~HasHandle(running_crews, call.crew)
            /\ UNCHANGED <<running_crews, procs, streams>>

\* C4: start_crew for a crew whose handle is present raises "already
\* running" without spawning a subprocess, without recording or pushing an
\* event of its own, and without modifying the existing handle.
C4_AlreadyRunning == []C4_Entry /\ [][C4_Step]_vars

\* A start of a crew with a handle was rejected and reported.
C4_Witness ==
    \E ev \in BagToSet(pushed) :
        /\ ev.type = "crew_error"
        /\ ev.msg = "already_running"
        /\ HasHandle(running_crews, normalize_crew_identifier(ev.crew).id)

\* A start whose directory resolution fails, or whose directory has no
\* main.py, ends with that error and without a crew_started.
C5_Entry ==
    \A via \in Vias, raw \in RawIds, fs \in {"resolve_error", "no_main"}, ok \in BOOLEAN :
        LET norm == normalize_crew_identifier(HandlerCrewId(via, raw))
            out == StartEntry(running_crews, via, raw, fs, ok)
        IN  (HandlerPrecheck(via, raw) = "" /\ norm.ok /\ ~HasHandle(running_crews, norm.id))
              => /\ out.error = fs
                 /\ \A i \in 1..Len(out.recorded) : out.recorded[i].type # "crew_started"
                 /\ \A i \in 1..Len(out.pushed) : out.pushed[i].type # "crew_started"

\* A start request rejected on arrival spawns nothing, adds no crew_started
\* and leaves the map as it is.
C5_Step ==
    (Len(calls') > Len(calls) /\ calls'[Len(calls')] = Finished) =>
        /\ UNCHANGED <<running_crews, procs, streams>>
        /\ \A pid \in 1..Len(procs') :
              ~Grew(pushed, pushed', "crew_started", pid)

\* C5: start_crew whose directory resolution fails or whose directory has
\* no main.py raises a structural error, spawns no subprocess, emits no
\* crew_started and leaves the running-crews map unchanged.
C5_StructuralError == []C5_Entry /\ [][C5_Step]_vars

\* A start failed for a missing main.py and the crew has no handle.
C5_Witness ==
    \E ev \in BagToSet(pushed) :
        /\ ev.type = "crew_error"
        /\ ev.msg \in {"no_main", "resolve_error"}
        /\ ~HasHandle(running_crews, normalize_crew_identifier(ev.crew).id)

\* A step that records or pushes a crew_log of a run finds the run's
\* crew_started recorded and pushed, and leaves its crew_stopped absent.
C6_LogStep ==
    \A pid \in 1..Len(procs) :
        (Grew(activity, activity', "crew_log", pid) \/ Grew(pushed, pushed', "crew_log", pid))
          => /\ Has(activity, "crew_started", pid)
             /\ Has(pushed, "crew_started", pid)
             /\ ~Has(activity', "crew_stopped", pid)
             /\ ~Has(pushed', "crew_stopped", pid)

\* C6: for every run, crew_started is recorded and pushed before any
\* crew_log of that run, and no crew_log of that run is recorded or pushed
\* after the run's crew_stopped.
C6_LogsBetweenStartedAndStopped == [][C6_LogStep]_vars

\* A whole run: started, a line pushed, stopped.
C6_Witness ==
    \E pid \in 1..Len(procs) :
        /\ Has(pushed, "crew_started", pid)
        /\ Has(pushed, "crew_log", pid)
        /\ Has(pushed, "crew_stopped", pid)

\* C7 as stated: stop_crew never raises, whatever identifier it is given.
C7_NeverRaises ==
    \A raw \in RawIds, tfail \in BOOLEAN, kfail \in BOOLEAN :
        StopResult(running_crews, procs, raw, tfail, kfail).error = ""

\* C7 amended: stop_crew raises exactly when the identifier is not a valid
\* crew identifier; for a valid one it returns whether the handle is
\* absent, the process has exited, or terminate or kill raise.
C7_RaisesOnlyForInvalidId ==
    \A raw \in RawIds, tfail \in BOOLEAN, kfail \in BOOLEAN :
        StopResult(running_crews, procs, raw, tfail, kfail).error =
            IF normalize_crew_identifier(raw).ok THEN "" ELSE "invalid_id"

\* terminate and kill both raise on a live process, and stop_crew returns.
C7_Witness ==
    \E raw \in RawIds :
        LET out == StopResult(running_crews, procs, raw, TRUE, TRUE)
        IN  out.terminate_failed /\ out.kill_failed /\ out.error = ""

\* C8: stop_crew sends no signal when the handle is absent or the process
\* has exited; otherwise it calls terminate once and kill exactly when the
\* terminate attempt failed, for the native process and the Windows wrapper.
C8_SignalPolicy ==
    \A raw \in RawIds, tfail \in BOOLEAN, kfail \in BOOLEAN :
        LET out == StopResult(running_crews, procs, raw, tfail, kfail)
        IN  out.error = "" =>
              IF ~out.found \/ out.exited
                THEN out.terminate = 0 /\ out.kill = 0
                ELSE /\ out.terminate = 1
                     /\ out.kill = IF out.terminate_failed THEN 1 ELSE 0

\* A reader that pushed a crew_log is still reading after the push, whether
\* or not the push raised.
C9_Step ==
    \A pid \in 1..Len(procs), level \in Levels :
        (/\ Pump(streams[pid], level) = "reading"
         /\ streams'[pid].pc = streams[pid].pc
         /\ LevelCount(pushed', pid, level) > LevelCount(pushed, pid, level))
          => Pump(streams'[pid], level) = "reading"

\* A run one of whose pushes raised and whose stream task has ended has
\* its crew_stopped, once, and no handle.
C9_Done ==
    \A pid \in 1..Len(procs) :
        (streams[pid].failed_at > 0 /\ streams[pid].pc \in {"updating", "done"})
          => /\ EventCount(pushed, "crew_stopped", pid) = 1
             /\ EventCount(activity, "crew_stopped", pid) = 1
             /\ ~HandleOf(pid)

\* C9: if pushing a crew_log raises, the reader goes on reading and pushing
\* the later lines, and the run's crew_stopped is still emitted and its
\* handle removed when the process exits.
C9_PumpSurvivesFailedPush == []C9_Done /\ [][C9_Step]_vars

\* A push raised, a later line of the run was pushed, and the run ended
\* with its crew_stopped.
C9_Witness ==
    \E pid \in 1..Len(procs) :
        /\ streams[pid].failed_at > 0
        /\ LogCount(pushed, pid) > streams[pid].failed_at
        /\ Has(pushed, "crew_stopped", pid)
        /\ ~HandleOf(pid)

\* How many crew_error events an event log holds.
ErrorCount(log) == EventCount(log, "crew_error", 0)

\* A step in which a start request fails, on arrival or after the spawn was
\* attempted, adds a crew_error to the activity store and to the notifier.
C10_FailedStart ==
    \A c \in 1..Len(calls') :
        (/\ calls'[c] = Finished
         /\ \/ c > Len(calls)
            \/ calls[c].pc \in {"spawn", "emit_raised"})
          => /\ ErrorCount(activity') > ErrorCount(activity)
             /\ ErrorCount(pushed') > ErrorCount(pushed)

\* C10: every failed start request, from the HTTP endpoint or the startCrew
\* event, has a crew_error recorded in the activity store and pushed.
C10_CrewErrorMirrorsFailure == [][C10_FailedStart]_vars

\* ActivityStore

IsSuffix(s, t) == Len(s) <= Len(t) /\ s = SubSeq(t, Len(t) - Len(s) + 1, Len(t))

\* The times of the events of a buffer.
EventTimes(evs) == {_parse_timestamp(evs[i].timestamp, now) : i \in 1..Len(evs)}

\* The calls that change the buffer on purpose.
AddEventReturns == \E th \in Threads, wok \in BOOLEAN : AddEventLocked(th, wok)

PruneReturns == \E wok \in BOOLEAN : Prune(wok)

C11_Step ==
    /\ AddEventReturns =>
          /\ events' # <<>>
          /\ events'[Len(events')].id = next_id
          /\ IsSuffix(SubSeq(events', 1, Len(events') - 1), events)
    /\ (PruneReturns \/ GetEvents) => IsSuffix(events', events)
    /\ ((LoadPersistedEvents \/ Restart) /\ file.exists) =>
          IsSuffix(Visible(events'), file.events)

\* C11: the buffer never holds more than max_events events, and whatever a
\* call drops is the front of the list, the events added earliest: add_event
\* keeps the new event last and a suffix of the old buffer before it, prune
\* and get_events keep a suffix of the old buffer, loading keeps a suffix of
\* the file's events.
C11_BoundedDropsOldest == [](Len(events) <= max_events) /\ [][C11_Step]_vars

\* Three events were added at time 0, before anything could expire: the
\* first one was dropped for the bound.
C11_Witness ==
    /\ now = 0
    /\ Len(events) = max_events
    /\ events[1].id = 2
    /\ events[2].id = 3

C12_Step ==
    (AddEventReturns \/ PruneReturns \/ LoadPersistedEvents \/ Restart) =>
        \A t \in EventTimes(events)' : t >= now' - retention

\* C12: immediately after add_event, prune or load_persisted_events (also the
\* load of a new instance) every retained event has a timestamp no older than
\* now - retention.
C12_NoExpiredAfterMutation == [][C12_Step]_vars

\* C13: the ids one ActivityStore instance assigned are strictly increasing,
\* so none is assigned twice.
C13_IdsStrictlyIncreasing ==
    \A i \in 1..Len(assigned), j \in 1..Len(assigned) :
        i < j => assigned[i] < assigned[j]

C14_Step ==
    \A event_type \in StoreTypes \ TrackedEvents :
        (\E th \in Threads, payload \in Payloads : AddEventEnter(th, event_type, payload)) =>
            /\ add_result' = "None"
            /\ UNCHANGED <<events, next_id, file, adders, assigned>>

\* C14: add_event with a type outside the tracked ones returns None and leaves
\* the event list, the next-id counter and the persisted file as they were;
\* nothing of the call stays behind.
C14_UntrackedIsNoOp == [][C14_Step]_vars

\* add_event returned None while the store holds events and a file.
C14_Witness == add_result = "None" /\ events # <<>> /\ file.exists

C15_Step ==
    ((\E i \in 1..max_events, object \in {"payload", "entry"} : MutateCallerObject(i, object))
       \/ (\E i \in 1..max_events : MutateListed(i))) =>
        GetEventsResult(events', now') = GetEventsResult(events, now)

\* C15: when a caller changes the payload it passed to add_event, the entry
\* add_event returned, or an event of a list get_events returned, what
\* get_events returns next stays the same.
C15_CallerMutationIsInvisible == [][C15_Step]_vars

\* The file holds what the store holds: its last write succeeded and nothing
\* changed since.
FileIsCurrent == file = Persisted(next_id, events)

C16_Reproduces ==
    /\ Visible(events') = GetEventsResult(events, now)
    /\ next_id' = next_id

C16_Step ==
    (Restart /\ FileIsCurrent) =>
        /\ C16_Reproduces
        /\ events' # <<>> => next_id' = MaxId(events') + 1

\* C16 (as the code has it): a new ActivityStore constructed on the file another
\* store wrote shows the event sequence the writer would show at that time,
\* and continues from the writer's id counter, which is max(retained ids) + 1
\* whenever an event is retained.
C16_ReloadContinuesCounter == [][C16_Step]_vars

\* A new instance that has assigned nothing yet holds events read from the file.
C16_Witness ==
    /\ assigned = <<>>
    /\ adders = {}
    /\ events # <<>>
    /\ next_id = MaxId(events) + 1
    /\ \A i \in 1..Len(events) : events[i].shared = "no"

C16_OriginalStep ==
    (Restart /\ FileIsCurrent) =>
        /\ Visible(events') = GetEventsResult(events, now)
        /\ next_id' = MaxId(events') + 1

\* C16 (as stated): a new ActivityStore constructed on the file another store
\* wrote shows the same event sequence, and the next event it accepts gets
\* id max(retained ids) + 1.
C16_ReloadContinuesFromMaxId == [][C16_OriginalStep]_vars

C17_Step ==
    (((\E th \in Threads : AddEventLocked(th, TRUE)) \/ Prune(TRUE) \/ GetEvents)
       /\ events' # events) =>
        file' = Persisted(next_id', events')

\* C17: after add_event, prune or get_events changed the buffer, no write
\* having failed, the file holds the id counter and the event list of the
\* store.
C17_FileFollowsBuffer == [][C17_Step]_vars

\* LogDeduplicator and OperationTracker

\* What is_duplicate is to return for a key, by when the key was last sighted
\* and what that sighting returned.
ExpectedDuplicate(key) ==
    IF key \in DOMAIN ref_logs.seen /\ now - ref_logs.seen[key] < time_window
    THEN [dup |-> TRUE, count |-> ref_logs.count[key] + 1]
    ELSE [dup |-> FALSE, count |-> 1]

C18_Step ==
    \A log_entry \in DedupEntries :
        IsDuplicateCall(log_entry) => dedup_result' = ExpectedDuplicate(LogHash(log_entry))

\* C18: is_duplicate returns (False, 1) for a key sighted for the first time
\* or sighted last time_window or more ago, and (True, n + 1) for a key
\* sighted less than time_window ago, n being what that sighting returned;
\* cleanup calls anywhere in between change none of this.
C18_DuplicateByWindow == [][C18_Step]_vars

\* A cleanup has purged key (m, a), sighted before, and is_duplicate has
\* since counted a repeat of key (m, b).
C18_Witness ==
    /\ <<"m", "a">> \in DOMAIN ref_logs.seen
    /\ <<"m", "a">> \notin DOMAIN recent_logs
    /\ dedup_result = [dup |-> TRUE, count |-> 2]
    /\ <<"m", "b">> \in DOMAIN last_seen
    /\ last_seen[<<"m", "b">>] = now

C19_Step ==
    Cleanup =>
        \A id \in 1..Len(op_times') :
            op_times'[id].present => ~OperationExpiredByAge(op_times'[id], now')

\* C19: after a cleanup no operation is left whose age exceeds the maximum
\* age, an operation still open (no RESULT line arrived) included.
C19_CleanupEvictsStale == [][C19_Step]_vars

\* Request metrics

\* After a recomputation at time t: no expired sample is left in memory or in
\* the table, and the summary counts the samples of the window.
RecomputedExactly(t) ==
    LET cutoff == t - REQUEST_METRICS_WINDOW_SECONDS
        InWindow(samples) == PopAllExpiredSamples(samples, cutoff)
    IN  /\ InWindow(request_metrics_samples) = request_metrics_samples
        /\ InWindow(metrics_store) = metrics_store
        /\ request_metrics_summary = Summary(InWindow(request_metrics_samples))

C20_Step ==
    /\ \A timestamp \in 0..MaxMetricsTime, is_error \in BOOLEAN :
           RecordRequestMetric(timestamp, is_error) => RecomputedExactly(timestamp)'
    /\ GetRequestMetrics => RecomputedExactly(now)'

\* C20: after every recomputation of the request-metrics summary, on an append
\* (at the time of the appended sample) and on a read (at the current time),
\* neither the in-memory samples nor the table hold a sample older than the
\* window, and the summary counts exactly the samples within the window,
\* whatever the order of the timestamps appended.
C20_SummaryCountsWindow == [][C20_Step]_vars

\* Scheduling of the cleanup worker

\* No worker task comes to exist in the step.
NoTaskCreated == workers' <= workers /\ cleanup_task' = cleanup_task

C21_Step ==
    /\ ScheduleCleanup(FALSE) =>
          /\ NoTaskCreated /\ callbacks' = callbacks
          /\ ~TaskIsLive(cleanup_task) => cleanup_pending'
    /\ (ScheduleCleanup(TRUE) /\ ~TaskIsLive(cleanup_task)) =>
          ~cleanup_pending' /\ callbacks' = callbacks + 1
    /\ StartCleanupTask => cleanup_task' = "live" /\ workers' = 1

C21_OriginalStep ==
    /\ ScheduleCleanup(FALSE) => NoTaskCreated /\ cleanup_pending'
    /\ StartCleanupTask => cleanup_task' = "live" /\ workers' = 1

C22_Step ==
    \A window_key \in WindowKeys \ {"1h", "24h"} :
        GetSystemStatsHistory(window_key) =>
            /\ history_response'.status = 400
            /\ UNCHANGED <<system_stats_history, stats_table>>

\* C22: a history request with a window key other than the supported ones is
\* answered with a client error (400) and leaves the stored system-stats
\* series and the in-memory window as they were.
C22_UnsupportedWindowRejected == [][C22_Step]_vars

\* An unsupported window was rejected while both series hold samples.
C22_Witness ==
    /\ history_response.status = 400
    /\ Len(stats_table) = MaxStats
    /\ system_stats_history # <<>>

\* categorize_log

CategoryOrder == <<"SEARCH", "ANALYSIS", "DECISION", "RESULT", "ERROR", "ACTION">>

CategoryKeywords ==
    ("SEARCH" :> {"search", "query", "looking for", "find"})
    @@ ("ANALYSIS" :> {"analyz", "process", "evaluat", "assess"})
    @@ ("DECISION" :> {"decid", "select", "choose", "determin"})
    @@ ("RESULT" :> {"result", "found", "complet", "finish"})
    @@ ("ERROR" :> {"error", "fail", "exception", "issue"})
    @@ ("ACTION" :> {"execut", "perform", "run", "start"})

\* The places in the order whose category has a keyword in the lower-cased message.
MatchingPlaces(message) ==
    {k \in 1..Len(CategoryOrder) :
        \E i \in 1..Len(message) : LowerWord(message[i]) \in CategoryKeywords[CategoryOrder[k]]}

FirstMatch(message) ==
    IF MatchingPlaces(message) = {} THEN "INFO"
    ELSE CategoryOrder[CHOOSE k \in MatchingPlaces(message) :
                           \A j \in MatchingPlaces(message) : k <= j]

\* C23: categorize_log returns the first category, in the order SEARCH,
\* ANALYSIS, DECISION, RESULT, ERROR, ACTION, one of whose keywords the
\* lower-cased message contains, and INFO when none does.
C23_FirstMatchWins == call_result # <<>> => call_result[1] = FirstMatch(call_args)

\* A message with an ERROR keyword before a SEARCH keyword, both written with
\* capitals, was classified SEARCH.
C23_Witness == call_args = <<"Error", "SEARCH">> /\ call_result = <<"SEARCH">>

\* _calculate_percentile

\* The result, in hundredths, that the claim gives for n sorted samples: with
\* k = (n - 1) p / 100, the sample at floor(k) plus the fraction k - floor(k)
\* of the step to the sample at ceil(k).
Interpolated(values, percentile) ==
    LET n == Len(values)
        lo == ((n - 1) * percentile) \div 100
        fraction == ((n - 1) * percentile) % 100
        hi == IF fraction = 0 THEN lo ELSE lo + 1
    IN  100 * values[lo + 1] + fraction * (values[hi + 1] - values[lo + 1])

\* C24: the percentile of a sorted list is the linear interpolation between
\* the order statistics at floor(k) and ceil(k), k = (n - 1) p / 100; it is
\* 48.0 for [10, 20, 30, 40, 50] and p = 95, 0 for an empty list and the
\* sample itself for a single sample.
C24_PercentileInterpolates ==
    call_result # <<>> =>
        LET values == call_args.values
            percentile == call_args.percentile
        IN  /\ values = <<>> => call_result[1] = 0
            /\ Len(values) = 1 => call_result[1] = 100 * values[1]
            /\ values # <<>> => call_result[1] = Interpolated(values, percentile)
            /\ (values = <<10, 20, 30, 40, 50>> /\ percentile = 95) => call_result[1] = 4800

\* The percentile of the claim's samples was computed.
C24_Witness ==
    /\ call_args = [values |-> <<10, 20, 30, 40, 50>>, percentile |-> 95]
    /\ call_result = <<4800>>

\* stream_process_logs and its readers

\* C25: the stream task leaves its wait for the exited subprocess, removes the
\* handle and emits crew_stopped only after both readers have read their
\* stream to its end, so that every line written before the exit was pushed
\* before crew_stopped.
C25_Step ==
    \A pid \in 1..Len(procs) :
        WaitReturn(pid) =>
            /\ streams[pid].info = "ended"
            /\ streams[pid].error = "ended"

C25_PumpsDrainedBeforeStop == [][C25_Step]_vars

\* OperationTracker

\* The operations the tracker holds (cleanup has not deleted them) whose
\* status is in_progress.
InProgress ==
    {id \in 1..Len(tracker.operations) :
        op_times[id].present /\ tracker.operations[id].status = "in_progress"}

\* C26: after any sequence of processed lines and cleanup runs the tracker
\* holds at most one in_progress operation, and current_operation_id is set
\* exactly when there is one and names it.
C26_OneOpenOperation ==
    /\ Cardinality(InProgress) <= 1
    /\ tracker.current # 0 <=> InProgress # {}
    /\ tracker.current # 0 => InProgress = {tracker.current}

\* A second operation is open after the first was completed and deleted by
\* cleanup.
C26_Witness ==
    /\ Len(tracker.operations) = 2
    /\ tracker.current = 2
    /\ tracker.operations[1].status = "complete"
    /\ ~op_times[1].present
    /\ tracker.operations[2].sequence = 2

\* The operation tags of log lines

\* C27: a line processed while an operation is open gets the number after the
\* one the previous line of the operation got, and the operation's id; a
\* RESULT line among them also completes the operation, clears the current
\* slot and carries no operation id.  A SEARCH, ANALYSIS or DECISION line with
\* no operation open opens a new one and gets number 1 and its id; any other
\* line with no operation open gets no operation id and number 0.
C27_Step ==
    \A category \in Categories :
        ReadStreamLine(category) =>
            LET tag == call_result'[1]
                open == tracker.current
                new == tracker'.current
            IN  IF open # 0
                    THEN /\ tag.sequence = tracker.operations[open].sequence + 1
                         /\ tracker'.operations[open].sequence = tag.sequence
                         /\ Len(tracker'.operations) = Len(tracker.operations)
                         /\ IF category = "RESULT"
                              THEN /\ tag.operationId = 0
                                   /\ new = 0
                                   /\ tracker'.operations[open].status = "complete"
                              ELSE /\ tag.operationId = open
                                   /\ new = open
                                   /\ tracker'.operations[open].status = "in_progress"
                ELSE IF category \in {"SEARCH", "ANALYSIS", "DECISION"}
                    THEN /\ new \notin 0..Len(tracker.operations)
                         /\ new \in 1..Len(tracker'.operations)
                         /\ tag = [operationId |-> new, sequence |-> 1]
                         /\ tracker'.operations[new].sequence = 1
                         /\ tracker'.operations[new].status = "in_progress"
                ELSE /\ tag = [operationId |-> 0, sequence |-> 0]
                     /\ tracker' = tracker

C27_SequenceAndOperationId == [][C27_Step]_vars

\* A RESULT line closed an operation as its third line.
C27_Witness ==
    /\ call_args = <<"RESULT">>
    /\ call_result = <<[operationId |-> 0, sequence |-> 3]>>
    /\ tracker.current = 0
    /\ Len(tracker.operations) = 2
    /\ tracker.operations[2].status = "complete"

\* periodic_prune

\* The buffer holds an event recorded at time ts.
Holds(ts) == \E i \in 1..Len(events) : events[i].timestamp = Isoformat(ts)

\* C28: with the periodic prune task running, every event in the buffer whose
\* age exceeds the retention window is eventually removed from the buffer,
\* whether or not further events are recorded or listed.
C28_ExpiredEventuallyRemoved ==
    \A ts \in 0..MaxPruneTime :
        (Holds(ts) /\ ts < now - retention) ~> ~Holds(ts)

\* The prune task has emptied the buffer of expired events and written the
\* empty list to the file.
C28_Witness ==
    /\ now = MaxPruneTime
    /\ assigned # <<>>
    /\ events = <<>>
    /\ file.exists /\ file.events = <<>>

\* start_crew raising

\* C29: when start_crew raises, the running-crews map holds no handle of a
\* subprocess that call started, and no subprocess it started is left running
\* without a stream task that will observe its exit.
C29_Step ==
    \A c \in 1..Len(calls) :
        (EmitStartedRaise(c) \/ SpawnFail(c)) =>
            LET crew == calls[c].crew
                pid == calls[c].pid
            IN  pid # 0 =>
                    /\ ~(HasHandle(running_crews', crew) /\ running_crews'[crew].process = pid)
                    /\ \/ procs'[pid].returncode # None
                       \/ streams'[pid].pc # "none"

C29_StartIsAllOrNothing == [][C29_Step]_vars

\* Two crews under one manager

\* C30: whether a line of crew "a" is pushed or suppressed, and the operation
\* id and sequence attached to it, are what they are when crew "a" is the only
\* crew emitting lines.
C30_CrewsDoNotInterfere ==
    call_result # <<>> /\ call_args[1] = "a" => call_result[1] = call_result[2]

====
